---- MODULE Spec2Model ----
(***************************************************************************)
(* Client side of the task-run lifecycle of src/src/prefect/tasks.py:     *)
(* propose_state, Task._run (one worker per submitted run) and            *)
(* Task.__call__ (the dispatcher, on the flow's thread), against a remote *)
(* authority that answers every proposal with ACCEPT, ABORT or a          *)
(* substituted state, or fails to answer.                                 *)
(***************************************************************************)
EXTENDS Integers, Sequences, FiniteSets, TLC

\* Number of invocations of Task.__call__ on the one Task object.
MaxCalls == 2
\* Invocations of the callable within one run (the loop itself is unbounded).
MaxAttempts == 2

\* The clock has TicksPerSecond ticks in a second, and times up to MaxTicks
\* are considered.
TicksPerSecond == 2
MaxTicks == 5

Calls == 1..MaxCalls

\* Scheduled timestamps the authority assigns.
Times == {1}

None == "None"

---------------------------------------------------------------------------
(* State objects (prefect.orion.schemas.states.State) *)

EmptyDetails == [scheduled_time |-> <<>>]

ScheduledDetails(t) == [scheduled_time |-> <<t>>]

State(type, message, data) ==
    [type |-> type, message |-> message, data |-> data,
     state_details |-> EmptyDetails]

\* The value of a variable that holds no State yet.
NoState == State(None, None, None)

Retrying == State("RETRYING", None, None)

is_running(state) == state.type \in {"RUNNING", "RETRYING"}

is_scheduled(state) == state.type = "SCHEDULED"

\* What the callable can do: return a value, raise an Exception, or raise a
\* BaseException that is not an Exception (SystemExit, KeyboardInterrupt).
FnOutcomes ==
    { [kind |-> "return", value |-> "result_42"],
      [kind |-> "Exception", value |-> "ValueError"],
      [kind |-> "BaseException", value |-> "SystemExit"] }

NoOutcome == [kind |-> None, value |-> None]

---------------------------------------------------------------------------
(* The authority's answers (SetStateResponse) *)

ServerDetails == {EmptyDetails} \cup {ScheduledDetails(t) : t \in Times}

ServerStates ==
    { [State("SCHEDULED", "server", None) EXCEPT !.state_details = ScheduledDetails(t)]
        : t \in Times }
    \cup { State("RUNNING", "server", None),
           State("COMPLETED", "server", "server_data") }

Response(status, state, state_details) ==
    [status |-> status,
     details |-> [state |-> state, state_details |-> state_details]]

Responses ==
    { Response("ACCEPT", <<>>, d) : d \in {<<>>} \cup { <<x>> : x \in ServerDetails } }
    \cup { Response("ABORT", <<>>, <<>>) }
    \cup { Response("REJECT", <<s>>, <<>>) : s \in ServerStates }

\* Variants of propose_state with one branch wrong: ABORT handed back as if
\* accepted; the server's state-details dropped on ACCEPT; the local proposal
\* kept when the authority substitutes its own state.
propose_state_abort_returns(state, response) ==
    IF response.status \in {"ACCEPT", "ABORT"}
    THEN [raises |-> None,
          value  |-> IF response.details.state_details # <<>>
                     THEN [state EXCEPT !.state_details =
                                          response.details.state_details[1]]
                     ELSE state]
    ELSE [raises |-> None, value |-> response.details.state[1]]

propose_state_drops_details(state, response) ==
    IF response.status = "ACCEPT"
    THEN [raises |-> None, value |-> state]
    ELSE IF response.status = "ABORT"
    THEN [raises |-> "ABORT", value |-> NoState]
    ELSE [raises |-> None, value |-> response.details.state[1]]

propose_state_keeps_proposal(state, response) ==
    IF response.status = "ACCEPT"
    THEN [raises |-> None,
          value  |-> IF response.details.state_details # <<>>
                     THEN [state EXCEPT !.state_details =
                                          response.details.state_details[1]]
                     ELSE state]
    ELSE IF response.status = "ABORT"
    THEN [raises |-> "ABORT", value |-> NoState]
    ELSE [raises |-> None, value |-> state]

\* propose_state after client.set_task_run_state has returned `response`:
\* the state it returns, or the error it raises.
propose_state(state, response) ==
    IF response.status = "ACCEPT"
    THEN [raises |-> None,
          value  |-> IF response.details.state_details # <<>>
                     THEN [state EXCEPT !.state_details =
                                          response.details.state_details[1]]
                     ELSE state]
    ELSE IF response.status = "ABORT"
    THEN [raises |-> "ABORT", value |-> NoState]
    ELSE [raises |-> None, value |-> response.details.state[1]]

---------------------------------------------------------------------------
(* The program's state *)

VARIABLES
    dynamic_key,    \* Task.dynamic_key
    callPc,         \* position of each invocation of Task.__call__
    callCtx,        \* what FlowRunContext.get() / TaskRunContext.get() gave it
    callErr,        \* message of the error the invocation raised, or None
    loaded,         \* the value of dynamic_key read by `self.dynamic_key += 1`
    registered,     \* runs created by create_task_run (run c is call c's run)
    inflight,       \* per run: proposals sent and not yet answered
    pc,             \* position of each run's Task._run
    proposal,       \* per run: the state handed to propose_state
    state,          \* per run: the local variable `state` of Task._run
    invoked,        \* per run: number of invocations of the callable
    call_args,      \* per run: the call_args executor.submit was given
    fn_args,        \* per run: the arguments of the latest invocation of the callable
    task_context,   \* per run: its TaskRunContext is entered
    fnOutcome,      \* per run: what the latest invocation of the callable did
    lastResp,       \* per run: <<the answer propose_state last got>>, while _run acts on it
    allAccept,      \* per run: every answer to Task._run so far was ACCEPT
    runErr,         \* per run: why Task._run raised, or None
    replay,         \* what the runs were given and what they did, when kept
    max_retries,    \* per run: self.max_retries of its Task
    retry_delay_seconds,  \* per run: self.retry_delay_seconds of its Task
    h_pc, h_state, h_response, h_result,  \* one call of propose_state alone
    pendingVerdicts,  \* the verdicts the authority gives on PENDING proposals
    sleep_pc,       \* position in the retry wait of Task._run, taken alone
    now,            \* the wall clock (pendulum.now()), in ticks
    scheduled_time, \* state.state_details.scheduled_time, in ticks
    wait_time       \* the local variable wait_time, a duration in ticks

vars == <<dynamic_key, callPc, callCtx, callErr, loaded, registered, inflight,
          pc, proposal, state, invoked, call_args, fn_args, task_context,
          fnOutcome, lastResp, allAccept, runErr, h_pc, h_state, h_response, h_result,
          pendingVerdicts, sleep_pc, now, scheduled_time, wait_time,
          replay, max_retries, retry_delay_seconds>>

callVars == <<callPc, callCtx, callErr, loaded>>

runVars == <<pc, proposal, state, invoked, call_args, fn_args, task_context,
             fnOutcome, lastResp, allAccept, runErr, replay>>

sleepVars == <<sleep_pc, now, scheduled_time, wait_time>>

policyVars == <<max_retries, retry_delay_seconds>>

harnessVars == <<h_pc, h_state, h_response, h_result, sleepVars, pendingVerdicts,
                 policyVars>>

\* No arguments yet; invocation c of the task is made with ArgsOf(c), so
\* that the arguments of different invocations differ.
NoArgs == <<>>
ArgsOf(c) == <<"arg", c>>

NoResult == [raises |-> None, value |-> NoState]

\* Nothing is kept of what the runs are given and do.
NoReplay ==
    [on |-> FALSE, script |-> <<>>, pos |-> [r \in Calls |-> 0],
     log |-> [r \in Calls |-> <<>>]]

\* When kept: run r has been given `inputs` (answers of the authority,
\* outcomes of the callable) and has done `outputs` (proposals, invocations).
\* replay.script is what the runs are given, in order, each run being at
\* its own position replay.pos[r] in it.
Observed(r, inputs, outputs) ==
    IF ~replay.on THEN replay
    ELSE [replay EXCEPT
            !.pos[r] = @ + Len(inputs),
            !.script = IF replay.pos[r] + Len(inputs) > Len(@)
                       THEN @ \o inputs ELSE @,
            !.log[r] = @ \o outputs]

\* What a run is given: an answer of the authority, a failed round trip, or
\* an outcome of the callable.
VerdictInput(response) == [kind |-> "verdict", response |-> <<response>>, outcome |-> <<>>]
FailureInput == [kind |-> "failure", response |-> <<>>, outcome |-> <<>>]
OutcomeInput(outcome) == [kind |-> "outcome", response |-> <<>>, outcome |-> <<outcome>>]

\* What a run does: a proposal sent, or an invocation of the callable.
Proposed(s) == [act |-> "propose", state |-> <<s>>]
Invoked == [act |-> "invoke", state |-> <<>>]

ProgramInit ==
    /\ dynamic_key = 0
    /\ callPc = [c \in Calls |-> "idle"]
    /\ callCtx = [c \in Calls |-> [flow |-> FALSE, task |-> FALSE]]
    /\ callErr = [c \in Calls |-> None]
    /\ loaded = [c \in Calls |-> 0]
    /\ registered = {}
    /\ inflight = [r \in Calls |-> {}]
    /\ pc = [r \in Calls |-> "unsubmitted"]
    /\ proposal = [r \in Calls |-> NoState]
    /\ state = [r \in Calls |-> NoState]
    /\ invoked = [r \in Calls |-> 0]
    /\ call_args = [r \in Calls |-> NoArgs]
    /\ fn_args = [r \in Calls |-> NoArgs]
    /\ task_context = [r \in Calls |-> FALSE]
    /\ fnOutcome = [r \in Calls |-> NoOutcome]
    /\ lastResp = [r \in Calls |-> <<>>]
    /\ allAccept = [r \in Calls |-> TRUE]
    /\ runErr = [r \in Calls |-> None]
    /\ replay = NoReplay
    /\ max_retries = [r \in Calls |-> 0]
    /\ retry_delay_seconds = [r \in Calls |-> 0]

ProposeOff ==
    /\ h_pc = "off"
    /\ h_state = NoState
    /\ h_response = Response("ACCEPT", <<>>, <<>>)
    /\ h_result = NoResult

SleepOff ==
    /\ sleep_pc = "off"
    /\ now = 0
    /\ scheduled_time = 0
    /\ wait_time = 0

Statuses == {"ACCEPT", "ABORT", "REJECT"}

Init ==
    /\ ProgramInit
    /\ ProposeOff
    /\ SleepOff
    /\ pendingVerdicts = Statuses

\* Sending `s` as a proposal for run r (client.set_task_run_state, request side).
Send(r, s) == inflight' = [inflight EXCEPT ![r] = @ \cup {s}]

\* The answer to proposal `s` of run r has arrived (or the call has failed).
Answered(r, s) == inflight' = [inflight EXCEPT ![r] = @ \ {s}]

---------------------------------------------------------------------------
(* Task.__call__ *)

OutsideFlowMsg == "Tasks cannot be called outside of a flow."

WithinTaskMsg ==
    "Tasks cannot be called from within tasks. Did you mean to call this task in a flow?"

\* Variants of the context checks with one check missing.
ContextCheckNoFlow(flow_run_context, task_run_context) ==
    IF task_run_context THEN WithinTaskMsg ELSE None

ContextCheckNoTask(flow_run_context, task_run_context) ==
    IF ~flow_run_context THEN OutsideFlowMsg ELSE None

\* The two context checks: the message of the error raised, or None.
ContextCheck(flow_run_context, task_run_context) ==
    IF ~flow_run_context THEN OutsideFlowMsg
    ELSE IF task_run_context THEN WithinTaskMsg
    ELSE None

Pending == State("PENDING", None, None)

\* Calls are made one after another.
NoCallInProgress == \A d \in Calls : callPc[d] \in {"idle", "returned", "raised"}

\* Invocation c enters __call__ with the contexts its call site has: a task
\* context is active only inside the callable of some run; whether the flow
\* context is visible there is up to the executor. Invocations are numbered
\* in the order they enter.
EnterCall(c, flow, task) ==
    /\ callPc[c] = "idle"
    /\ \A d \in Calls : d < c => callPc[d] # "idle"
    /\ task => \E r \in Calls : task_context[r]
    /\ callCtx' = [callCtx EXCEPT ![c] = [flow |-> flow, task |-> task]]
    /\ LET err == ContextCheck(flow, task) IN
         IF err # None
         THEN /\ callPc' = [callPc EXCEPT ![c] = "raised"]
              /\ callErr' = [callErr EXCEPT ![c] = err]
         ELSE /\ callPc' = [callPc EXCEPT ![c] = "create_task_run"]
              /\ UNCHANGED callErr
    /\ UNCHANGED <<dynamic_key, loaded, registered, inflight,
                   runVars, harnessVars>>

\* The flow's thread makes its calls one after another.
CallEnter(c, flow, task) ==
    /\ NoCallInProgress
    /\ EnterCall(c, flow, task)

\* create_task_run returns the run's id; the PENDING state is sent.
CreateTaskRun(c) ==
    /\ callPc[c] = "create_task_run"
    /\ registered' = registered \cup {c}
    /\ Send(c, Pending)
    /\ callPc' = [callPc EXCEPT ![c] = "await_pending"]
    /\ UNCHANGED <<dynamic_key, callCtx, callErr, loaded, runVars, harnessVars>>

\* create_task_run raises (no answer from the authority).
CreateTaskRunFails(c) ==
    /\ callPc[c] = "create_task_run"
    /\ callPc' = [callPc EXCEPT ![c] = "raised"]
    /\ callErr' = [callErr EXCEPT ![c] = "COMM"]
    /\ UNCHANGED <<dynamic_key, callCtx, loaded, registered, inflight,
                   runVars, harnessVars>>

\* Where __call__ goes on once set_task_run_state(PENDING) has returned.
AfterPendingUnlessAbort(response) ==
    IF response.status = "ABORT" THEN "raised" ELSE "submit"
AfterPending(response) == "submit"

\* set_task_run_state(PENDING) returns; its response is not looked at.
PendingReturns(c, response) ==
    /\ callPc[c] = "await_pending"
    /\ Pending \in inflight[c]
    /\ response.status \in pendingVerdicts
    /\ Answered(c, Pending)
    /\ callPc' = [callPc EXCEPT ![c] = AfterPending(response)]
    /\ UNCHANGED <<dynamic_key, callCtx, callErr, loaded, registered,
                   runVars, harnessVars>>

\* set_task_run_state(PENDING) raises.
PendingFails(c) ==
    /\ callPc[c] = "await_pending"
    /\ Pending \in inflight[c]
    /\ Answered(c, Pending)
    /\ callPc' = [callPc EXCEPT ![c] = "raised"]
    /\ callErr' = [callErr EXCEPT ![c] = "COMM"]
    /\ UNCHANGED <<dynamic_key, callCtx, loaded, registered,
                   runVars, harnessVars>>

\* executor.submit is reached only after set_task_run_state has returned.
SubmitEnabledEarly(c) == callPc[c] \in {"await_pending", "submit"}
SubmitEnabled(c) == callPc[c] = "submit"

\* executor.submit(task_run_id, self._run, ...): the run is queued.
Submit(c) ==
    /\ SubmitEnabled(c)
    /\ pc' = [pc EXCEPT ![c] = "queued"]
    /\ call_args' = [call_args EXCEPT ![c] = ArgsOf(c)]
    /\ callPc' = [callPc EXCEPT ![c] = "load_key"]
    /\ UNCHANGED <<dynamic_key, callCtx, callErr, loaded, registered, inflight,
                   proposal, state, invoked, fn_args, task_context, fnOutcome,
                   lastResp, allAccept, runErr, replay, harnessVars>>

\* self.dynamic_key += 1, the read.
LoadKey(c) ==
    /\ callPc[c] = "load_key"
    /\ loaded' = [loaded EXCEPT ![c] = dynamic_key]
    /\ callPc' = [callPc EXCEPT ![c] = "store_key"]
    /\ UNCHANGED <<dynamic_key, callCtx, callErr, registered, inflight,
                   runVars, harnessVars>>

IncrementedTwice(k) == k + 2
Incremented(k) == k + 1

\* self.dynamic_key += 1, the write.
StoreKey(c) ==
    /\ callPc[c] = "store_key"
    /\ dynamic_key' = Incremented(loaded[c])
    /\ callPc' = [callPc EXCEPT ![c] = "return"]
    /\ UNCHANGED <<callCtx, callErr, loaded, registered, inflight,
                   runVars, harnessVars>>

RunEnded(r) == pc[r] \in {"returned", "raised"}

\* `return future` waits for nothing.
ReturnEnabledAfterResult(c) == callPc[c] = "return" /\ RunEnded(c)
ReturnEnabled(c) == callPc[c] = "return"

\* return future
Return(c) ==
    /\ ReturnEnabled(c)
    /\ callPc' = [callPc EXCEPT ![c] = "returned"]
    /\ UNCHANGED <<dynamic_key, callCtx, callErr, loaded, registered, inflight, runVars, harnessVars>>

---------------------------------------------------------------------------
(* Task._run, on a worker of the executor *)

Busy == { r \in Calls : pc[r] \notin {"unsubmitted", "queued", "returned", "raised"} }

\* The worker of the executor (a pool of one thread, which runs the submitted
\* runs one at a time and in the order submitted, concurrently with the flow's
\* thread) takes the queued run: _run proposes RUNNING.
StartRun(r) ==
    /\ pc[r] = "queued"
    /\ Busy = {}
    /\ \A q \in Calls : q < r => pc[q] # "queued"
    /\ proposal' = [proposal EXCEPT ![r] = State("RUNNING", None, None)]
    /\ Send(r, State("RUNNING", None, None))
    /\ pc' = [pc EXCEPT ![r] = "await"]
    /\ replay' = Observed(r, <<>>, <<Proposed(State("RUNNING", None, None))>>)
    /\ UNCHANGED <<dynamic_key, callVars, registered, state, invoked,
                   call_args, fn_args, task_context, fnOutcome, lastResp,
                   allAccept, runErr, harnessVars>>

IsTerminalProposal(s) == s.type \in {"COMPLETED", "FAILED"}

\* _run ends by raising `err`: its locals are gone, and no state is returned.
Raise(r, err) ==
    /\ pc' = [pc EXCEPT ![r] = "raised"]
    /\ runErr' = [runErr EXCEPT ![r] = err]
    /\ state' = [state EXCEPT ![r] = NoState]
    /\ proposal' = [proposal EXCEPT ![r] = NoState]
    /\ fnOutcome' = [fnOutcome EXCEPT ![r] = NoOutcome]

\* The authority answers the proposal _run is waiting on: propose_state
\* returns the effective state, or raises.
Verdict(r, response) ==
    /\ pc[r] = "await"
    /\ proposal[r] \in inflight[r]
    /\ Answered(r, proposal[r])
    /\ allAccept' = [allAccept EXCEPT ![r] = @ /\ response.status = "ACCEPT"]
    /\ lastResp' = [lastResp EXCEPT ![r] = <<response>>]
    /\ replay' = Observed(r, <<VerdictInput(response)>>, <<>>)
    /\ LET res == propose_state(proposal[r], response) IN
         IF res.raises # None
         THEN /\ Raise(r, res.raises)
         ELSE /\ state' = [state EXCEPT ![r] = res.value]
              /\ pc' = [pc EXCEPT ![r] =
                          IF IsTerminalProposal(proposal[r])
                          THEN "check_scheduled" ELSE "loop_test"]
              /\ UNCHANGED <<runErr, proposal, fnOutcome>>
    /\ UNCHANGED <<dynamic_key, callVars, registered, invoked, call_args,
                   fn_args, task_context, harnessVars>>

\* client.set_task_run_state raises inside propose_state: _run raises.
VerdictFails(r) ==
    /\ pc[r] = "await"
    /\ proposal[r] \in inflight[r]
    /\ Answered(r, proposal[r])
    /\ allAccept' = [allAccept EXCEPT ![r] = FALSE]
    /\ lastResp' = [lastResp EXCEPT ![r] = <<>>]
    /\ replay' = Observed(r, <<FailureInput>>, <<>>)
    /\ Raise(r, "COMM")
    /\ UNCHANGED <<dynamic_key, callVars, registered, invoked, call_args,
                   fn_args, task_context, harnessVars>>

\* while state.is_running()
LoopContinuesAlways(s) == TRUE
LoopContinuesWhileScheduled(s) == is_running(s) \/ is_scheduled(s)
LoopContinues(s) == is_running(s)

\* self.fn(*call_args, **call_kwargs): the arguments _run was submitted with.
InvocationArgsOfLatestCall(r) ==
    ArgsOf(CHOOSE c \in Calls :
              /\ call_args[c] # NoArgs
              /\ \A d \in Calls : call_args[d] # NoArgs => d <= c)
InvocationArgs(r) == call_args[r]

\* while state.is_running(): enter the TaskRunContext and invoke the callable,
\* or leave the loop and return state (state[r] is then the value returned;
\* the other locals are gone).
LoopTest(r) ==
    /\ pc[r] = "loop_test"
    /\ IF LoopContinues(state[r])
       THEN /\ invoked[r] < MaxAttempts
            /\ invoked' = [invoked EXCEPT ![r] = @ + 1]
            /\ fn_args' = [fn_args EXCEPT ![r] = InvocationArgs(r)]
            /\ task_context' = [task_context EXCEPT ![r] = TRUE]
            /\ pc' = [pc EXCEPT ![r] = "executing"]
            /\ replay' = Observed(r, <<>>, <<Invoked>>)
            /\ UNCHANGED <<proposal, fnOutcome, lastResp>>
       ELSE /\ pc' = [pc EXCEPT ![r] = "returned"]
            /\ proposal' = [proposal EXCEPT ![r] = NoState]
            /\ fnOutcome' = [fnOutcome EXCEPT ![r] = NoOutcome]
            /\ lastResp' = [lastResp EXCEPT ![r] = <<>>]
            /\ UNCHANGED <<invoked, fn_args, task_context, replay>>
    /\ UNCHANGED <<dynamic_key, callVars, registered, inflight,
                   state, call_args, allAccept, runErr, harnessVars>>

\* except Exception
CatchesNothing(outcome) == FALSE
Catches(outcome) == outcome.kind = "Exception"

\* The state built from what the callable did.
TerminalStateAlwaysCompleted(outcome) ==
    State("COMPLETED", "Task run completed.", outcome.value)
TerminalState(outcome) ==
    IF outcome.kind = "return"
    THEN State("COMPLETED", "Task run completed.", outcome.value)
    ELSE State("FAILED", "Task run encountered an exception.", outcome.value)

\* The with-block of the TaskRunContext is left, whatever the callable did:
\* whether the run's context is still entered afterwards.
ContextKeptOnException(outcome) == outcome.kind # "return"
ContextAfterCallable(outcome) == FALSE

\* The callable ends: the TaskRunContext is left, and the terminal state is
\* proposed, unless what it raised is not caught.
FnFinish(r, outcome) ==
    /\ pc[r] = "executing"
    /\ task_context' = [task_context EXCEPT ![r] = ContextAfterCallable(outcome)]
    /\ IF outcome.kind = "return" \/ Catches(outcome)
       THEN /\ fnOutcome' = [fnOutcome EXCEPT ![r] = outcome]
            /\ proposal' = [proposal EXCEPT ![r] = TerminalState(outcome)]
            /\ Send(r, TerminalState(outcome))
            /\ pc' = [pc EXCEPT ![r] = "await"]
            /\ replay' = Observed(r, <<OutcomeInput(outcome)>>,
                                  <<Proposed(TerminalState(outcome))>>)
            /\ UNCHANGED <<runErr, state, lastResp>>
       ELSE /\ Raise(r, outcome.kind)
            /\ lastResp' = [lastResp EXCEPT ![r] = <<>>]
            /\ replay' = Observed(r, <<OutcomeInput(outcome)>>, <<>>)
            /\ UNCHANGED inflight
    /\ UNCHANGED <<dynamic_key, callVars, registered, invoked, call_args,
                   fn_args, allAccept, harnessVars>>

\* A scheduled check that gives up once max_retries retries have been made.
CheckScheduledWithinRetries(r) ==
    /\ pc[r] = "check_scheduled"
    /\ pc' = [pc EXCEPT ![r] =
                IF is_scheduled(state[r]) /\ invoked[r] <= max_retries[r]
                THEN "sleeping" ELSE "loop_test"]
    /\ UNCHANGED <<dynamic_key, callVars, registered, inflight,
                   proposal, state, invoked, call_args, fn_args, task_context,
                   fnOutcome, lastResp, allAccept, runErr, replay, harnessVars>>

\* if state.is_scheduled()
AwaitsRetryNever(s) == FALSE
AwaitsRetryAlways(s) == TRUE
AwaitsRetry(s) == is_scheduled(s)

\* if state.is_scheduled(): sleep; otherwise back to the loop test.
CheckScheduled(r) ==
    /\ pc[r] = "check_scheduled"
    /\ pc' = [pc EXCEPT ![r] =
                IF AwaitsRetry(state[r]) THEN "sleeping" ELSE "loop_test"]
    /\ UNCHANGED <<dynamic_key, callVars, registered, inflight,
                   proposal, state, invoked, call_args, fn_args, task_context,
                   fnOutcome, lastResp, allAccept, runErr, replay, harnessVars>>

\* time.sleep returns: _run proposes Retrying().
WakeUp(r) ==
    /\ pc[r] = "sleeping"
    /\ proposal' = [proposal EXCEPT ![r] = Retrying]
    /\ Send(r, Retrying)
    /\ pc' = [pc EXCEPT ![r] = "await"]
    /\ replay' = Observed(r, <<>>, <<Proposed(Retrying)>>)
    /\ UNCHANGED <<dynamic_key, callVars, registered, state, invoked,
                   call_args, fn_args, task_context, fnOutcome, lastResp,
                   allAccept, runErr, harnessVars>>

---------------------------------------------------------------------------
(* The specification *)

Next ==
    \/ \E c \in Calls, flow \in BOOLEAN, task \in BOOLEAN : CallEnter(c, flow, task)
    \/ \E c \in Calls : CreateTaskRun(c)
    \/ \E c \in Calls : CreateTaskRunFails(c)
    \/ \E c \in Calls, response \in Responses : PendingReturns(c, response)
    \/ \E c \in Calls : PendingFails(c)
    \/ \E c \in Calls : Submit(c)
    \/ \E c \in Calls : LoadKey(c)
    \/ \E c \in Calls : StoreKey(c)
    \/ \E c \in Calls : Return(c)
    \/ \E r \in Calls : StartRun(r)
    \/ \E r \in Calls, response \in Responses : Verdict(r, response)
    \/ \E r \in Calls : VerdictFails(r)
    \/ \E r \in Calls : LoopTest(r)
    \/ \E r \in Calls, outcome \in FnOutcomes : FnFinish(r, outcome)
    \/ \E r \in Calls : CheckScheduled(r)
    \/ \E r \in Calls : WakeUp(r)

Spec == Init /\ [][Next]_vars

---------------------------------------------------------------------------
(* The same Task invoked from concurrent contexts: an invocation may enter
   __call__ while another one is inside it *)

NextConcurrent ==
    \/ \E c \in Calls, flow \in BOOLEAN, task \in BOOLEAN : EnterCall(c, flow, task)
    \/ \E c \in Calls : CreateTaskRun(c)
    \/ \E c \in Calls : CreateTaskRunFails(c)
    \/ \E c \in Calls, response \in Responses : PendingReturns(c, response)
    \/ \E c \in Calls : PendingFails(c)
    \/ \E c \in Calls : Submit(c)
    \/ \E c \in Calls : LoadKey(c)
    \/ \E c \in Calls : StoreKey(c)
    \/ \E c \in Calls : Return(c)
    \/ \E r \in Calls : StartRun(r)
    \/ \E r \in Calls, response \in Responses : Verdict(r, response)
    \/ \E r \in Calls : VerdictFails(r)
    \/ \E r \in Calls : LoopTest(r)
    \/ \E r \in Calls, outcome \in FnOutcomes : FnFinish(r, outcome)
    \/ \E r \in Calls : CheckScheduled(r)
    \/ \E r \in Calls : WakeUp(r)

SpecConcurrent == Init /\ [][NextConcurrent]_vars

---------------------------------------------------------------------------
(* One run against an authority that answers only finitely many of its
   proposals with a running state, every round trip and every invocation of
   the callable coming to an end *)

\* The authority's answer makes the effective state a running one at most
\* MaxAttempts times in a run.
VerdictFinite(r, response) ==
    /\ Verdict(r, response)
    /\ is_running(state'[r]) => invoked[r] < MaxAttempts

\* The first invocation of the Task has returned its future and its run is
\* queued; no other invocation is made.
InitOneRun ==
    /\ dynamic_key = 1
    /\ callPc = [c \in Calls |-> IF c = 1 THEN "returned" ELSE "idle"]
    /\ callCtx = [c \in Calls |-> [flow |-> c = 1, task |-> FALSE]]
    /\ callErr = [c \in Calls |-> None]
    /\ loaded = [c \in Calls |-> 0]
    /\ registered = {1}
    /\ inflight = [r \in Calls |-> {}]
    /\ pc = [r \in Calls |-> IF r = 1 THEN "queued" ELSE "unsubmitted"]
    /\ proposal = [r \in Calls |-> NoState]
    /\ state = [r \in Calls |-> NoState]
    /\ invoked = [r \in Calls |-> 0]
    /\ call_args = [r \in Calls |-> IF r = 1 THEN ArgsOf(r) ELSE NoArgs]
    /\ fn_args = [r \in Calls |-> NoArgs]
    /\ task_context = [r \in Calls |-> FALSE]
    /\ fnOutcome = [r \in Calls |-> NoOutcome]
    /\ lastResp = [r \in Calls |-> <<>>]
    /\ allAccept = [r \in Calls |-> TRUE]
    /\ runErr = [r \in Calls |-> None]
    /\ replay = NoReplay
    /\ max_retries = [r \in Calls |-> 0]
    /\ retry_delay_seconds = [r \in Calls |-> 0]
    /\ ProposeOff
    /\ SleepOff
    /\ pendingVerdicts = Statuses

NextFinite ==
    \/ \E r \in Calls : StartRun(r)
    \/ \E r \in Calls, response \in Responses : VerdictFinite(r, response)
    \/ \E r \in Calls : VerdictFails(r)
    \/ \E r \in Calls : LoopTest(r)
    \/ \E r \in Calls, outcome \in FnOutcomes : FnFinish(r, outcome)
    \/ \E r \in Calls : CheckScheduled(r)
    \/ \E r \in Calls : WakeUp(r)

\* A step of run r on the worker.
RunStep(r) ==
    \/ StartRun(r)
    \/ \E response \in Responses : VerdictFinite(r, response)
    \/ VerdictFails(r)
    \/ LoopTest(r)
    \/ \E outcome \in FnOutcomes : FnFinish(r, outcome)
    \/ CheckScheduled(r)
    \/ WakeUp(r)

SpecFinite ==
    /\ InitOneRun
    /\ [][NextFinite]_vars
    /\ \A r \in Calls : WF_vars(RunStep(r))

---------------------------------------------------------------------------
(* Runs of Tasks that differ only in max_retries and retry_delay_seconds,
   each Task invoked once, every run given the same answers of the authority
   and the same outcomes of the callable *)

Ascending == [r \in Calls |-> r - 1]
Descending == [r \in Calls |-> MaxCalls - r]

\* Each invocation has returned its future and the runs are queued; what the
\* runs are given and do is kept.
InitPair ==
    /\ dynamic_key = 1
    /\ callPc = [c \in Calls |-> "returned"]
    /\ callCtx = [c \in Calls |-> [flow |-> TRUE, task |-> FALSE]]
    /\ callErr = [c \in Calls |-> None]
    /\ loaded = [c \in Calls |-> 0]
    /\ registered = Calls
    /\ inflight = [r \in Calls |-> {}]
    /\ pc = [r \in Calls |-> "queued"]
    /\ proposal = [r \in Calls |-> NoState]
    /\ state = [r \in Calls |-> NoState]
    /\ invoked = [r \in Calls |-> 0]
    /\ call_args = [r \in Calls |-> ArgsOf(r)]
    /\ fn_args = [r \in Calls |-> NoArgs]
    /\ task_context = [r \in Calls |-> FALSE]
    /\ fnOutcome = [r \in Calls |-> NoOutcome]
    /\ lastResp = [r \in Calls |-> <<>>]
    /\ allAccept = [r \in Calls |-> TRUE]
    /\ runErr = [r \in Calls |-> None]
    /\ replay = [NoReplay EXCEPT !.on = TRUE]
    /\ max_retries \in {Ascending, Descending}
    /\ retry_delay_seconds \in {Ascending, Descending}
    /\ ProposeOff
    /\ SleepOff
    /\ pendingVerdicts = Statuses

\* Run r is given `input`: what the script has at the run's position, or,
\* for the run that is first to get there, anything.
Scripted(r, input) ==
    replay.pos[r] < Len(replay.script)
    => replay.script[replay.pos[r] + 1] = input

ScriptedVerdict(r, response) ==
    /\ Scripted(r, VerdictInput(response))
    /\ Verdict(r, response)

ScriptedVerdictFails(r) ==
    /\ Scripted(r, FailureInput)
    /\ VerdictFails(r)

ScriptedFnFinish(r, outcome) ==
    /\ Scripted(r, OutcomeInput(outcome))
    /\ FnFinish(r, outcome)

NextPair ==
    \/ \E r \in Calls : StartRun(r)
    \/ \E r \in Calls, response \in Responses : ScriptedVerdict(r, response)
    \/ \E r \in Calls : ScriptedVerdictFails(r)
    \/ \E r \in Calls : LoopTest(r)
    \/ \E r \in Calls, outcome \in FnOutcomes : ScriptedFnFinish(r, outcome)
    \/ \E r \in Calls : CheckScheduled(r)
    \/ \E r \in Calls : WakeUp(r)

SpecPair == InitPair /\ [][NextPair]_vars

---------------------------------------------------------------------------
(* The program against an authority that answers every PENDING proposal
   with ABORT, or one that answers it with any verdict *)

InitPendingVerdict ==
    /\ ProgramInit
    /\ ProposeOff
    /\ SleepOff
    /\ pendingVerdicts \in { {"ABORT"}, Statuses }

SpecPendingVerdict == InitPendingVerdict /\ [][Next]_vars

---------------------------------------------------------------------------
(* propose_state on its own: any proposal against any answer *)

ProposalStates ==
    { [type |-> t, message |-> m, data |-> d, state_details |-> sd] :
        t \in {"PENDING", "RUNNING", "COMPLETED", "FAILED", "RETRYING", "SCHEDULED"},
        m \in {None, "Task run completed."},
        d \in {None, "result_42"},
        sd \in {EmptyDetails} \cup {ScheduledDetails(t) : t \in Times} }

InitPropose ==
    /\ ProgramInit
    /\ h_pc = "ready"
    /\ h_state \in ProposalStates
    /\ h_response \in Responses
    /\ h_result = NoResult
    /\ SleepOff
    /\ pendingVerdicts = Statuses

\* propose_state(client, task_run_id, h_state) with the authority answering
\* h_response.
CallProposeState ==
    /\ h_pc = "ready"
    /\ h_result' = propose_state(h_state, h_response)
    /\ h_pc' = "done"
    /\ UNCHANGED <<dynamic_key, callVars, registered, inflight,
                   runVars, h_state, h_response, sleepVars, pendingVerdicts,
                   policyVars>>

NextPropose == CallProposeState

SpecPropose == InitPropose /\ [][NextPropose]_vars

---------------------------------------------------------------------------
(* The retry wait of Task._run on its own, against a clock *)

\* int(duration.total_seconds()): whole seconds, rounded towards zero.
in_seconds(duration) ==
    IF duration >= 0
    THEN duration \div TicksPerSecond
    ELSE -((-duration) \div TicksPerSecond)

max(a, b) == IF a >= b THEN a ELSE b

\* The argument of time.sleep, in seconds.
SleepSeconds(duration) == max(in_seconds(duration), 0)

InitSleep ==
    /\ ProgramInit
    /\ ProposeOff
    /\ sleep_pc = "read_clock"
    /\ now \in 0..MaxTicks
    /\ scheduled_time \in 0..MaxTicks
    /\ wait_time = 0
    /\ pendingVerdicts = Statuses

\* Time passes while _run is between two statements.
Tick ==
    /\ sleep_pc \in {"read_clock", "sleep", "propose"}
    /\ now < MaxTicks
    /\ now' = now + 1
    /\ UNCHANGED <<dynamic_key, callVars, registered, inflight, runVars,
                   h_pc, h_state, h_response, h_result, pendingVerdicts, policyVars,
                   sleep_pc, scheduled_time, wait_time>>

\* wait_time = state.state_details.scheduled_time - pendulum.now()
ReadClock ==
    /\ sleep_pc = "read_clock"
    /\ wait_time' = scheduled_time - now
    /\ sleep_pc' = "sleep"
    /\ UNCHANGED <<dynamic_key, callVars, registered, inflight, runVars,
                   h_pc, h_state, h_response, h_result, pendingVerdicts, policyVars,
                   now, scheduled_time>>

\* time.sleep(max(wait_time.in_seconds(), 0)) returns after that many seconds.
Sleep ==
    /\ sleep_pc = "sleep"
    /\ now' = now + SleepSeconds(wait_time) * TicksPerSecond
    /\ sleep_pc' = "propose"
    /\ UNCHANGED <<dynamic_key, callVars, registered, inflight, runVars,
                   h_pc, h_state, h_response, h_result, pendingVerdicts, policyVars,
                   scheduled_time, wait_time>>

\* propose_state(client, task_run_id, Retrying()): the proposal is sent at `now`.
ProposeRetrying ==
    /\ sleep_pc = "propose"
    /\ sleep_pc' = "proposed"
    /\ UNCHANGED <<dynamic_key, callVars, registered, inflight, runVars,
                   h_pc, h_state, h_response, h_result, pendingVerdicts, policyVars,
                   now, scheduled_time, wait_time>>

NextSleep ==
    \/ Tick
    \/ ReadClock
    \/ Sleep
    \/ ProposeRetrying

SpecSleep == InitSleep /\ [][NextSleep]_vars

---------------------------------------------------------------------------
(* Properties *)

Started(c) == callPc[c] # "idle"

\* C1, as stated: Task._run raises only when propose_state raises (an ABORT
\* verdict or a communication failure), whatever the callable raised.
C1_RunRaisesOnlyFromProposeState ==
    \A r \in Calls : pc[r] = "raised" => runErr[r] \in {"ABORT", "COMM"}

\* C1, amended: an Exception raised by the callable is captured and proposed
\* as a FAILED state whose payload is the error, and Task._run raises only
\* when propose_state raises or when the callable raised a BaseException that
\* is not an Exception.
C1_ExceptionCapturedAsFailed ==
    \A r \in Calls :
        /\ pc[r] = "raised" => runErr[r] \in {"ABORT", "COMM", "BaseException"}
        /\ (pc[r] = "await" /\ IsTerminalProposal(proposal[r])
                /\ fnOutcome[r].kind = "Exception")
           => /\ proposal[r] = State("FAILED", "Task run encountered an exception.",
                                     fnOutcome[r].value)
              /\ proposal[r] \in inflight[r]

C1_Witness ==
    \E r \in Calls :
        /\ pc[r] = "await"
        /\ fnOutcome[r].kind = "Exception"
        /\ proposal[r].type = "FAILED"
        /\ proposal[r].data = "ValueError"
        /\ proposal[r] \in inflight[r]

\* C2: a run all of whose proposals were accepted (RUNNING, then the terminal
\* one) returns COMPLETED with the callable's return value if the callable
\* returned and FAILED with the raised error if it raised, after exactly one
\* invocation of the callable.
C2_AcceptedRunReturnsOutcome ==
    [][\A r \in Calls :
         (pc[r] # "returned" /\ pc'[r] = "returned" /\ allAccept[r])
         => /\ invoked[r] = 1
            /\ fnOutcome[r].kind \in {"return", "Exception"}
            /\ state'[r].type =
                 (IF fnOutcome[r].kind = "return" THEN "COMPLETED" ELSE "FAILED")
            /\ state'[r].data = fnOutcome[r].value]_vars

C2_Witness ==
    \E r, q \in Calls :
        /\ pc[r] = "returned" /\ allAccept[r] /\ invoked[r] = 1
        /\ state[r].type = "COMPLETED" /\ state[r].data = "result_42"
        /\ pc[q] = "returned" /\ allAccept[q] /\ invoked[q] = 1
        /\ state[q].type = "FAILED" /\ state[q].data = "ValueError"

Aborted(r) == lastResp[r] # <<>> /\ lastResp[r][1].status = "ABORT"

\* C3: once a proposal of Task._run is answered ABORT, propose_state has
\* raised and returned no state, the run has ended with that error, and from
\* then on it sends no proposal and does not invoke the callable.
C3_AbortIsFatal ==
    /\ [](\A r \in Calls :
            Aborted(r) => /\ pc[r] = "raised"
                          /\ runErr[r] = "ABORT"
                          /\ state[r] = NoState
                          /\ inflight[r] = {})
    /\ [][\A r \in Calls :
            Aborted(r) => /\ pc'[r] = pc[r]
                          /\ inflight'[r] = inflight[r]
                          /\ invoked'[r] = invoked[r]]_vars

C3_Witness ==
    \E r \in Calls :
        /\ Aborted(r)
        /\ pc[r] = "raised"
        /\ invoked[r] = 1

\* C4: on ACCEPT propose_state returns the proposal: equal to it in every
\* field when the answer carries no state-details, and otherwise with the
\* answer's state-details and the proposal's type, message and payload.
C4_AcceptReturnsProposal ==
    (h_pc = "done" /\ h_response.status = "ACCEPT")
    => /\ h_result.raises = None
       /\ IF h_response.details.state_details = <<>>
          THEN h_result.value = h_state
          ELSE /\ h_result.value.type = h_state.type
               /\ h_result.value.message = h_state.message
               /\ h_result.value.data = h_state.data
               /\ h_result.value.state_details = h_response.details.state_details[1]

C4_Witness ==
    /\ h_pc = "done"
    /\ h_response.status = "ACCEPT"
    /\ h_response.details.state_details # <<>>
    /\ h_state.state_details # h_response.details.state_details[1]
    /\ h_state.data = "result_42"
    /\ h_result.value.data = "result_42"
    /\ h_result.value.state_details = ScheduledDetails(1)

Substituted(r) == lastResp[r] # <<>> /\ lastResp[r][1].status = "REJECT"

\* C5: when the answer is neither ACCEPT nor ABORT, the state Task._run holds
\* is the authority's state verbatim, not its proposal; and the loop test,
\* the scheduled check and the return value all go by the state propose_state
\* returned.
C5_ActsOnReturnedState ==
    /\ [](\A r \in Calls :
            /\ Substituted(r) => state[r] = lastResp[r][1].details.state[1]
            /\ pc[r] = "executing" => is_running(state[r])
            /\ pc[r] = "sleeping" => is_scheduled(state[r])
            /\ pc[r] = "returned" => ~is_running(state[r]))
    /\ [][\A r \in Calls :
            (pc[r] # "returned" /\ pc'[r] = "returned")
            => state'[r] = state[r]]_vars

C5_Witness ==
    \E r \in Calls :
        /\ pc[r] = "sleeping"
        /\ Substituted(r)
        /\ proposal[r].type = "COMPLETED"
        /\ proposal[r].data = "result_42"
        /\ state[r].type = "SCHEDULED"
        /\ state[r].data = None

\* C6: a call made with no flow context active raises the "outside of a
\* flow" error at once: no run is registered, no PENDING state is sent,
\* nothing is submitted, and dynamic_key is as it was.
C6_NoFlowContextRaisesBeforeRegistration ==
    /\ [](\A c \in Calls :
            (Started(c) /\ ~callCtx[c].flow)
            => /\ callPc[c] = "raised"
               /\ callErr[c] = OutsideFlowMsg
               /\ c \notin registered
               /\ inflight[c] = {}
               /\ pc[c] = "unsubmitted")
    /\ [][\A c \in Calls :
            (~Started(c) /\ callPc'[c] # "idle" /\ ~callCtx'[c].flow)
            => /\ dynamic_key' = dynamic_key
               /\ registered' = registered]_vars

C6_Witness ==
    \E c \in Calls :
        /\ callPc[c] = "raised"
        /\ ~callCtx[c].flow /\ ~callCtx[c].task
        /\ callErr[c] = OutsideFlowMsg
        /\ dynamic_key = 1

NotRegistered(c) == c \notin registered /\ inflight[c] = {} /\ pc[c] = "unsubmitted"

\* C7, as stated: a call made while a task context is active raises the
\* "from within tasks" error, before any run is registered or submitted,
\* whatever the flow-context state.
C7_TaskContextAlwaysWithinTaskError ==
    \A c \in Calls :
        (Started(c) /\ callCtx[c].task)
        => /\ callPc[c] = "raised"
           /\ callErr[c] = WithinTaskMsg
           /\ NotRegistered(c)

\* C7, amended: a call made while a task context is active raises a usage
\* error before any run is registered or submitted; its message is the "from
\* within tasks" one, distinct from the "outside of a flow" one, when a flow
\* context is active too, and the "outside of a flow" one when none is.
C7_TaskContextUsageError ==
    \A c \in Calls :
        (Started(c) /\ callCtx[c].task)
        => /\ callPc[c] = "raised"
           /\ callErr[c] = (IF callCtx[c].flow THEN WithinTaskMsg ELSE OutsideFlowMsg)
           /\ WithinTaskMsg # OutsideFlowMsg
           /\ NotRegistered(c)

C7_Witness ==
    \E c \in Calls :
        /\ callPc[c] = "raised"
        /\ callCtx[c].flow /\ callCtx[c].task
        /\ callErr[c] = WithinTaskMsg
        /\ NotRegistered(c)

\* C8: with calls made one after another, dynamic_key is the number of calls
\* that have incremented it, each by one, and between calls it is the number
\* of calls that returned a future; a call that raised has not changed it.
C8_DynamicKeyCountsReturnedCalls ==
    /\ dynamic_key = Cardinality({ c \in Calls : callPc[c] \in {"return", "returned"} })
    /\ NoCallInProgress
       => dynamic_key = Cardinality({ c \in Calls : callPc[c] = "returned" })

C8_Witness ==
    \E c, d \in Calls :
        /\ callPc[c] = "returned"
        /\ callPc[d] = "raised"
        /\ c < d
        /\ dynamic_key = 1

\* C9: once the run is submitted, __call__ can always take its next step, up
\* to returning the future, whatever the position of the run.
C9_ReturnDoesNotWaitForRun ==
    \A c \in Calls :
        callPc[c] \in {"load_key", "store_key", "return"}
        => ENABLED (LoadKey(c) \/ StoreKey(c) \/ Return(c))

C9_Witness ==
    \E c \in Calls :
        /\ callPc[c] = "returned"
        /\ pc[c] = "executing"

Sent(r) == inflight'[r] \ inflight[r]

\* C10: a run never has two proposals awaiting their verdict, a proposal is
\* sent only when none is awaiting, PENDING is answered before the run is
\* submitted, and the proposals follow the order PENDING, RUNNING, then
\* COMPLETED or FAILED after a running effective state, and RETRYING only
\* after a terminal proposal whose effective state was SCHEDULED.
C10_ProposalsSequential ==
    /\ [](\A r \in Calls :
            /\ Cardinality(inflight[r]) <= 1
            /\ pc[r] # "unsubmitted" => (r \in registered /\ Pending \notin inflight[r]))
    /\ [][\A r \in Calls :
            Sent(r) # {}
            => /\ inflight[r] = {}
               /\ \A s \in Sent(r) :
                    /\ s.type \in {"PENDING", "RUNNING", "COMPLETED", "FAILED", "RETRYING"}
                    /\ s.type = "PENDING"
                       => (r \notin registered /\ pc[r] = "unsubmitted")
                    /\ s.type = "RUNNING"
                       => (r \in registered /\ proposal[r] = NoState)
                    /\ IsTerminalProposal(s)
                       => /\ proposal[r].type \in {"RUNNING", "RETRYING", "COMPLETED", "FAILED"}
                          /\ is_running(state[r])
                    /\ s.type = "RETRYING"
                       => (IsTerminalProposal(proposal[r]) /\ is_scheduled(state[r]))]_vars

C10_Witness ==
    \E r \in Calls :
        /\ pc[r] = "await"
        /\ proposal[r] = Retrying
        /\ inflight[r] = {Retrying}
        /\ invoked[r] = 1

\* C11, as stated: once the clock has been read, the duration handed to
\* time.sleep is never negative and never shorter than the time remaining
\* until scheduled_time, so RETRYING is never proposed before scheduled_time.
C11_RetryingNeverBeforeScheduledTime ==
    /\ sleep_pc \in {"sleep", "propose", "proposed"}
       => /\ SleepSeconds(wait_time) >= 0
          /\ SleepSeconds(wait_time) * TicksPerSecond >= wait_time
    /\ sleep_pc = "proposed" => now >= scheduled_time

\* C12, as stated: with the Task invoked from concurrent contexts, no
\* increment of dynamic_key is lost: once no invocation is inside __call__,
\* dynamic_key is the number of invocations that returned a future.
C12_NoIncrementLost ==
    NoCallInProgress
    => dynamic_key = Cardinality({ c \in Calls : callPc[c] = "returned" })

\* The step by which Task._run of run r returns.
Returns(r) == pc[r] # "returned" /\ pc'[r] = "returned"

\* The state propose_state gave for the latest proposal of run r, read off
\* the authority's answer.
AnswerTo(r) ==
    IF lastResp[r][1].status = "ACCEPT"
    THEN [proposal[r] EXCEPT !.state_details = state[r].state_details]
    ELSE lastResp[r][1].details.state[1]

\* C13, as stated: whenever Task._run returns a state, the callable was
\* invoked at least once, and the state returned is the answer to the latest
\* terminal (COMPLETED/FAILED) proposal and is not SCHEDULED.
C13_ReturnsOnlyAfterTerminalProposal ==
    [][\A r \in Calls :
         Returns(r)
         => /\ invoked[r] >= 1
            /\ IsTerminalProposal(proposal[r])
            /\ state'[r] = state[r]
            /\ ~is_scheduled(state[r])]_vars

\* C13, amended: whenever Task._run returns a state, that state is the
\* effective state of its latest proposal, whichever proposal that was, and
\* is not a running state. If the latest proposal was RUNNING the callable was
\* never invoked; otherwise it was invoked at least once. If the latest
\* proposal was a terminal one the state returned is not SCHEDULED; the
\* answer to a RUNNING or RETRYING proposal is returned even when SCHEDULED.
C13_ReturnsLatestNonRunningState ==
    [][\A r \in Calls :
         Returns(r)
         => /\ lastResp[r] # <<>>
            /\ lastResp[r][1].status # "ABORT"
            /\ state[r] = AnswerTo(r)
            /\ state'[r] = state[r]
            /\ ~is_running(state[r])
            /\ proposal[r].type \in {"RUNNING", "COMPLETED", "FAILED", "RETRYING"}
            /\ invoked[r] = 0 <=> proposal[r].type = "RUNNING"
            /\ IsTerminalProposal(proposal[r]) => ~is_scheduled(state[r])]_vars

\* A run that has returned the SCHEDULED state it got for a RETRYING proposal.
C13_Witness ==
    \E r \in Calls :
        /\ pc[r] = "returned"
        /\ is_scheduled(state[r])
        /\ invoked[r] = 1

\* Run r holds the effective state of its latest terminal proposal, and that
\* state is not SCHEDULED.
HoldsNonScheduledAnswer(r) ==
    /\ pc[r] \in {"check_scheduled", "loop_test"}
    /\ IsTerminalProposal(proposal[r])
    /\ ~is_scheduled(state[r])

\* Run r is leaving the loop with `state` as it is: nothing is invoked and
\* nothing is proposed.
StepsToReturn(r) ==
    /\ pc'[r] \in {pc[r], "loop_test", "returned"}
    /\ pc[r] = "loop_test" => pc'[r] \in {"loop_test", "returned"}
    /\ state'[r] = state[r]
    /\ invoked'[r] = invoked[r]
    /\ inflight'[r] = inflight[r]

\* C14, as stated: a non-SCHEDULED effective state of a terminal proposal is
\* final whatever its type: from there Task._run only returns that state,
\* without invoking the callable again or sending another proposal.
C14_NonScheduledAnswerIsFinal ==
    [][\A r \in Calls : HoldsNonScheduledAnswer(r) => StepsToReturn(r)]_vars

\* C14, amended: a non-SCHEDULED effective state of a terminal proposal is
\* final unless it is a running state: if it is not running, Task._run only
\* returns that state, without invoking the callable again or sending another
\* proposal; if it is running, the loop goes round again and the callable is
\* invoked once more, with no wait and no RETRYING proposal.
C14_NonRunningAnswerIsFinal ==
    [][\A r \in Calls :
         HoldsNonScheduledAnswer(r)
         => IF is_running(state[r])
            THEN /\ pc'[r] \in {pc[r], "loop_test", "executing"}
                 /\ state'[r] = state[r]
                 /\ inflight'[r] = inflight[r]
                 /\ pc'[r] = "executing" => invoked'[r] = invoked[r] + 1
            ELSE StepsToReturn(r)]_vars

\* The callable is running for the second time because the authority
\* answered the first terminal proposal with a RUNNING state.
C14_Witness ==
    \E r \in Calls :
        /\ pc[r] = "executing"
        /\ IsTerminalProposal(proposal[r])
        /\ state[r].type = "RUNNING"
        /\ invoked[r] = 2

\* The type of the effective state of run r's latest proposal, read off the
\* authority's answer.
AnswerType(r) ==
    IF lastResp[r][1].status = "ACCEPT"
    THEN proposal[r].type
    ELSE lastResp[r][1].details.state[1].type

\* The authority has answered the RUNNING proposal of run r with a state of
\* its own that is not running.
RunningRefused(r) ==
    /\ pc[r] = "loop_test"
    /\ proposal[r].type = "RUNNING"
    /\ Substituted(r)
    /\ AnswerType(r) \notin {"RUNNING", "RETRYING"}

\* C15: the callable is being invoked only when the effective state of the
\* latest proposal is running; and when the RUNNING proposal was answered
\* with a substituted state that is not running, the callable has not been
\* and is not invoked, no proposal is sent, and Task._run returns that
\* substituted state.
C15_InvokedOnlyWhileRunning ==
    /\ [](\A r \in Calls :
            /\ pc[r] = "executing"
               => /\ lastResp[r] # <<>>
                  /\ AnswerType(r) \in {"RUNNING", "RETRYING"}
                  /\ state[r].type = AnswerType(r)
            /\ (pc[r] = "returned" /\ invoked[r] = 0)
               => inflight[r] = {} /\ ~is_running(state[r]))
    /\ [][\A r \in Calls :
            RunningRefused(r)
            => /\ invoked[r] = 0
               /\ invoked'[r] = 0
               /\ inflight[r] = {}
               /\ inflight'[r] = {}
               /\ pc'[r] \in {"loop_test", "returned"}
               /\ state'[r] = lastResp[r][1].details.state[1]]_vars

\* A run that returned the SCHEDULED state substituted for its RUNNING
\* proposal, the callable never invoked.
C15_Witness ==
    \E r \in Calls :
        /\ pc[r] = "returned"
        /\ invoked[r] = 0
        /\ state[r].type = "SCHEDULED"
        /\ state[r].message = "server"

\* The authority has accepted the RETRYING proposal of run r.
RetryAccepted(r) ==
    /\ pc[r] = "loop_test"
    /\ proposal[r] = Retrying
    /\ lastResp[r] # <<>>
    /\ lastResp[r][1].status = "ACCEPT"

\* C16: an accepted RETRYING proposal leaves Task._run holding a RETRYING
\* state, which passes the loop test: the run does not return it, its next
\* step invokes the callable again, with the arguments the run was submitted
\* with (those of the earlier invocation), and when that invocation ends a
\* new terminal proposal is sent, unless the callable raised past
\* `except Exception`.
C16_AcceptedRetryRunsAgain ==
    /\ [](\A r \in Calls :
            /\ RetryAccepted(r)
               => /\ state[r].type = "RETRYING"
                  /\ invoked[r] >= 1
                  /\ fn_args[r] = call_args[r]
                  /\ invoked[r] < MaxAttempts => ENABLED LoopTest(r)
            /\ invoked[r] >= 1 => fn_args[r] = ArgsOf(r))
    /\ [][\A r \in Calls :
            /\ RetryAccepted(r)
               => /\ pc'[r] \in {"loop_test", "executing"}
                  /\ pc'[r] = "executing"
                     => /\ invoked'[r] = invoked[r] + 1
                        /\ fn_args'[r] = fn_args[r]
                        /\ inflight'[r] = {}
            /\ (pc[r] = "executing" /\ state[r].type = "RETRYING"
                   /\ pc'[r] # "executing")
               => \/ /\ pc'[r] = "await"
                     /\ IsTerminalProposal(proposal'[r])
                     /\ inflight'[r] = {proposal'[r]}
                  \/ /\ pc'[r] = "raised"
                     /\ runErr'[r] = "BaseException"]_vars

\* The terminal proposal of the second invocation is awaiting its verdict,
\* the second invocation having followed an accepted RETRYING proposal.
C16_Witness ==
    \E r \in Calls :
        /\ pc[r] = "await"
        /\ IsTerminalProposal(proposal[r])
        /\ proposal[r] \in inflight[r]
        /\ state[r] = Retrying
        /\ invoked[r] = 2
        /\ fn_args[r] = call_args[r]

\* C17: the TaskRunContext of a run is entered exactly while its callable is
\* executing. It is left on every way out of the callable (return, Exception,
\* BaseException); none is entered while a proposal awaits its verdict, at
\* the moment a proposal is sent, during the retry wait, or once Task._run
\* has returned or raised.
C17_TaskContextOnlyWhileExecuting ==
    /\ [](\A r \in Calls :
            /\ task_context[r] <=> pc[r] = "executing"
            /\ inflight[r] # {} => ~task_context[r]
            /\ pc[r] \in {"sleeping", "returned", "raised"} => ~task_context[r])
    /\ [][\A r \in Calls :
            /\ Sent(r) # {} => ~task_context'[r]
            /\ (pc[r] = "executing" /\ pc'[r] # "executing") => ~task_context'[r]
            /\ (~task_context[r] /\ task_context'[r])
               => pc[r] = "loop_test" /\ inflight[r] = {}]_vars

\* The callable raised a BaseException that Task._run does not catch: the
\* run has raised, and its context is left.
C17_Witness ==
    \E r \in Calls :
        /\ pc[r] = "raised"
        /\ runErr[r] = "BaseException"
        /\ invoked[r] = 1
        /\ ~task_context[r]

\* The PENDING proposal of invocation c has been answered by the authority
\* (with the one verdict it gives on PENDING proposals).
PendingAnswered(c) ==
    /\ c \in registered
    /\ Pending \notin inflight[c]
    /\ callErr[c] # "COMM"

\* C19: whichever verdict the authority gives on PENDING (ACCEPT, ABORT or a
\* substituted state), __call__ can take it, raises nothing on it, submits
\* the run and increments dynamic_key; and the run, once it is the worker's
\* turn, sends its RUNNING proposal.
C19_PendingVerdictIgnored ==
    \A c \in Calls :
        /\ (callPc[c] = "await_pending" /\ Pending \in inflight[c])
           => \A response \in Responses :
                response.status \in pendingVerdicts
                => ENABLED PendingReturns(c, response)
        /\ PendingAnswered(c)
           => /\ callPc[c] \in {"submit", "load_key", "store_key", "return", "returned"}
              /\ callErr[c] = None
              /\ callPc[c] = "submit" => ENABLED Submit(c)
              /\ callPc[c] # "submit" => pc[c] # "unsubmitted"
              /\ callPc[c] \in {"return", "returned"}
                 => dynamic_key = Cardinality({ d \in Calls :
                                      /\ PendingAnswered(d)
                                      /\ callPc[d] \in {"return", "returned"} })
              /\ (pc[c] = "queued" /\ Busy = {}
                    /\ \A q \in Calls : q < c => pc[q] # "queued")
                 => ENABLED StartRun(c)

\* The authority answers every PENDING with ABORT: the invocation has returned its
\* future with dynamic_key incremented, and the run's RUNNING proposal is
\* awaiting its verdict.
C19_Witness ==
    \E c \in Calls :
        /\ pendingVerdicts = {"ABORT"}
        /\ callPc[c] = "returned"
        /\ callErr[c] = None
        /\ dynamic_key = c
        /\ pc[c] = "await"
        /\ proposal[c].type = "RUNNING"
        /\ proposal[c] \in inflight[c]

\* C20: against an authority that makes the effective state running only
\* finitely often, with every round trip and every invocation of the callable
\* ending, a submitted run eventually returns or raises. On the client side
\* nothing but the effective state decides whether the loop goes round again:
\* whenever the state held at the loop test is running the callable can be
\* invoked once more, however often it has been invoked before.
C20_RunEndsUnlessAuthorityKeepsItRunning ==
    /\ \A r \in Calls : (pc[r] # "unsubmitted") ~> RunEnded(r)
    /\ [](\A r \in Calls :
            (pc[r] = "loop_test" /\ is_running(state[r]))
            => /\ invoked[r] < MaxAttempts
               /\ ENABLED LoopTest(r))

\* The loop has gone round as often as is counted, each further round
\* because the authority had answered SCHEDULED and accepted RETRYING.
C20_Witness ==
    \E r \in Calls :
        /\ pc[r] = "executing"
        /\ state[r].type = "RETRYING"
        /\ invoked[r] = MaxAttempts

\* Run r is waiting for what it is given next, or has ended.
AtRest(r) == pc[r] \in {"await", "executing", "returned", "raised"}

\* C18: runs of Tasks that differ only in max_retries and retry_delay_seconds
\* and are given the same answers and outcomes do the same: having been
\* given equally much they have sent the same proposals in the same order
\* and invoked the callable equally often and are at the same place, and
\* where one has ended no other goes on.
C18_RetryPolicyNotEnforced ==
    \A r, q \in Calls :
        /\ r # q => /\ max_retries[r] # max_retries[q]
                    /\ retry_delay_seconds[r] # retry_delay_seconds[q]
        /\ (AtRest(r) /\ AtRest(q) /\ replay.pos[r] = replay.pos[q])
           => /\ replay.log[r] = replay.log[q]
              /\ invoked[r] = invoked[q]
              /\ pc[r] = pc[q]
              /\ state[r] = state[q]
        /\ RunEnded(r) => replay.pos[q] <= replay.pos[r]
        /\ (RunEnded(r) /\ RunEnded(q)) => replay.pos[r] = replay.pos[q]

\* Two runs given the same have both ended after the same proposals, the
\* callable invoked more than max_retries + 1 times in one of them.
C18_Witness ==
    \E r, q \in Calls :
        /\ r # q
        /\ RunEnded(r)
        /\ RunEnded(q)
        /\ replay.log[r] = replay.log[q]
        /\ invoked[r] = invoked[q]
        /\ invoked[r] > max_retries[r] + 1
        /\ invoked[q] <= max_retries[q] + 1

====
